---- MODULE Spec2Model ----
(***************************************************************************)
(* Model of dbt/schema_tester.py: the SchemaTester class (execute_query,   *)
(* validate_schema, create_test_results_table_if_not_exist,                *)
(* insert_test_results) and the referential-integrity validation query.    *)
(*                                                                         *)
(* The program is sequential: the orchestrator has at most one call into   *)
(* the tester in progress.  pc is the position inside that call, top is    *)
(* the method the orchestrator called, caller is the method that called    *)
(* create_test_results_table_if_not_exist.                                 *)
(***************************************************************************)
EXTENDS Integers, Sequences, FiniteSets, TLC

\* ---- bounds ----
MaxCount == 1        \* largest count(*) / failure count drawn
MaxCols == 2         \* widest result row drawn
MaxResultRows == 2   \* longest result set drawn
MaxRun == 2          \* longest run-result feed drawn
MaxTable == 2        \* longest parent / child table of the referential query

Models == {"model_a", "model_b"}
Messages == {"syntax error", "relation does not exist"}

\* ---- Python values ----
PyInt(n) == [type |-> "int", str |-> "", int |-> n]
PyStr(s) == [type |-> "str", str |-> s, int |-> 0]
PyNone == [type |-> "NoneType", str |-> "", int |-> 0]

\* sequences over S of length at most n
RECURSIVE SeqUpTo(_, _)
SeqUpTo(S, n) ==
    IF n = 0 THEN {<<>>}
    ELSE LET shorter == SeqUpTo(S, n - 1)
         IN  shorter \cup {Append(s, x) : s \in {t \in shorter : Len(t) = n - 1}, x \in S}

\* sequences over S of length exactly n
SeqOfLen(S, n) == {s \in SeqUpTo(S, n) : Len(s) = n}

\* ---- the database engine's reply to cursor.execute(sql) ----
\* A statement is represented by what the engine answers to it: a
\* psycopg2.ProgrammingError with a primary diagnostic message, another
\* exception deriving from Exception, an exception deriving only from
\* BaseException (KeyboardInterrupt), or a result set whose rows all have
\* the same number of columns.  Only the first row of a result set is ever
\* fetched: the rows after it are taken to hold MaxCount in every column.
Filler(w) == [i \in 1..w |-> MaxCount]
ResultSets ==
    {<<>>} \cup
    UNION {{<<first>> \o [i \in 1..more |-> Filler(w)] :
               first \in SeqOfLen(0..MaxCount, w), more \in 0..(MaxResultRows - 1)} :
           w \in 0..MaxCols}

Reply(k, m, r) == [kind |-> k, message |-> m, rows |-> r]
Statements ==
    {Reply("ProgrammingError", m, <<>>) : m \in Messages}
    \cup {Reply("Exception", "", <<>>), Reply("BaseException", "", <<>>)}
    \cup {Reply("rows", "", r) : r \in ResultSets}
NoStatement == Reply("none", "", <<>>)

\* replies to the DDL and to the bulk insert; both methods catch
\* psycopg2.ProgrammingError only, "Exception" stands for any other exception
CommandReplies == {"ok", "ProgrammingError", "Exception"}

\* ---- the run-result feed ----
Statuses == {PyStr("ERROR")} \cup {PyInt(n) : n \in 0..MaxCount}
\* One outcome per model, in the order the models ran: status is the status
\* code "ERROR" or the number of failing rows.
ModelOrder == <<"model_a", "model_b", "model_c", "model_d">>
RunModelResults(m) ==
    [model : {m}, errored : BOOLEAN, skipped : BOOLEAN, status : Statuses]
RECURSIVE RunsOfLen(_)
RunsOfLen(n) ==
    IF n = 0 THEN {<<>>}
    ELSE {Append(r, res) : r \in RunsOfLen(n - 1), res \in RunModelResults(ModelOrder[n])}
Runs == UNION {RunsOfLen(n) : n \in 0..MaxRun}

\* rows of dbt_test_results: what earlier runs have left in the table
ResultRow(t, m, e, s, f, c) ==
    [tested_at |-> t, model_name |-> m, errored |-> e, skipped |-> s,
     failed |-> f, count_failures |-> c]
PriorTables == {<<>>, <<ResultRow(0, "model_a", FALSE, FALSE, FALSE, 0)>>}

\* ---- how a call ends ----
Returns(v) == [kind |-> "return", value |-> v, exc |-> "", tag |-> ""]
Raises(e, m) == [kind |-> "raise", value |-> PyNone, exc |-> e, tag |-> m]
Yields(b) == [kind |-> "yield", value |-> [type |-> "bool", str |-> "", int |-> IF b THEN 1 ELSE 0], exc |-> "", tag |-> ""]
Running == [kind |-> "none", value |-> PyNone, exc |-> "", tag |-> ""]

VARIABLES
    test_started_at,  \* self.test_started_at
    top,              \* the method the orchestrator called
    caller,           \* who called create_test_results_table_if_not_exist
    pc,               \* position in the running call
    model,            \* execute_query's model argument
    sql,              \* the statement of execute_query / validate_schema
    run,              \* insert_test_results' run_model_results argument
    handles,          \* database handles currently open
    cursors,          \* cursors currently open
    executed,         \* statements executed on the session last acquired
    pending,          \* completion travelling through the with blocks
    ret,              \* how the orchestrator's call ended
    logged,           \* log records written by the running call
    table_exists,     \* {schema}.dbt_test_results exists
    table,            \* rows of {schema}.dbt_test_results
    before,           \* number of rows when insert_test_results was called
    values,           \* rows rendered by insert_test_results
    inserts,          \* insert statements executed by the running call
    created,          \* reply of the table-creation step of the running call
    inserted,         \* reply of the insert step of the running call
    parent,           \* referential query: parent column
    child,            \* referential query: child column
    ri                \* referential query: result

vars == <<test_started_at, top, caller, pc, model, sql, run, handles,
          cursors, executed, pending, ret, logged, table_exists, table,
          before, values, inserts, created, inserted, parent, child, ri>>

ri_vars == <<parent, child, ri>>
db_vars == <<table_exists, table>>
arg_vars == <<model, sql, run>>

call_vars == <<before, values, inserts, created, inserted>>

\* The orchestrator may call into the tester when no call is in progress.
Idle == pc = "idle"

LogRecord(level, msg, stmt) == [level |-> level, msg |-> msg, stmt |-> stmt]

\* ---- scoped sessions ----
\* target.get_handle() as a context manager: entering opens a session,
\* leaving closes it.
HandleEnter(h) == h + 1
HandleExit(h) == h - 1

InitTester ==
    /\ test_started_at = 1   \* datetime.datetime.now(), later than the rows already stored
    /\ top = "none"
    /\ caller = "none"
    /\ pc = "idle"
    /\ model = "none"
    /\ sql = NoStatement
    /\ run = <<>>
    /\ handles = 0
    /\ cursors = 0
    /\ executed = 0
    /\ pending = Running
    /\ ret = Running
    /\ logged = {}
    /\ table_exists \in BOOLEAN
    /\ table \in IF table_exists THEN PriorTables ELSE {<<>>}
    /\ before = 0
    /\ values = <<>>
    /\ inserts = 0
    /\ created = "none"
    /\ inserted = "none"

Init ==
    /\ InitTester
    /\ parent = <<>>
    /\ child = <<>>
    /\ ri = [done |-> FALSE, count |-> 0]

\* the orchestrator enters a method of the tester
Enter(method, first) ==
    /\ Idle
    /\ top' = method
    /\ pc' = first
    /\ before' = Len(table)
    /\ UNCHANGED <<test_started_at, handles, cursors, executed, pending, ret, logged>>
    /\ UNCHANGED <<values, inserts, created, inserted>>
    /\ UNCHANGED <<db_vars, ri_vars>>

\* the orchestrator takes the outcome of the call that ended; the run ends
\* with the recorder's write
collect ==
    /\ pc = "done"
    /\ top # "insert_test_results"
    /\ pc' = "idle"
    /\ top' = "none"
    /\ caller' = "none"
    /\ model' = "none"
    /\ sql' = NoStatement
    /\ run' = <<>>
    /\ executed' = 0
    /\ pending' = Running
    /\ ret' = Running
    /\ logged' = {}
    /\ before' = 0
    /\ values' = <<>>
    /\ inserts' = 0
    /\ created' = "none"
    /\ inserted' = "none"
    /\ UNCHANGED <<test_started_at, handles, cursors>>
    /\ UNCHANGED <<db_vars, ri_vars>>

\* ---- execute_query ----
execute_query ==
    /\ \E m \in Models, s \in Statements :
          /\ model' = m
          /\ sql' = s
    /\ Enter("execute_query", "eq_get_handle")
    /\ UNCHANGED run
    /\ caller' = "orchestrator"

\* with target.get_handle() as handle
eq_get_handle ==
    /\ pc = "eq_get_handle"
    /\ handles' = HandleEnter(handles)
    /\ executed' = 0
    /\ pc' = "eq_cursor"
    /\ UNCHANGED <<test_started_at, top, caller, cursors, pending, ret, logged>>
    /\ UNCHANGED <<arg_vars, db_vars, call_vars, ri_vars>>

\* with handle.cursor() as cursor
eq_cursor ==
    /\ pc = "eq_cursor"
    /\ cursors' = cursors + 1
    /\ pc' = "eq_execute"
    /\ UNCHANGED <<test_started_at, top, caller, handles, executed, pending, ret, logged>>
    /\ UNCHANGED <<arg_vars, db_vars, call_vars, ri_vars>>

\* variant: the exception is re-raised without "e.model = model"
ExecuteQueryTryUntagged(s, m) ==
    CASE s.kind = "ProgrammingError" -> Returns(PyStr(s.message))
      [] s.kind = "Exception" -> Raises("Exception", "")
      [] s.kind = "BaseException" -> Raises("BaseException", "")
      [] OTHER -> Running

\* the try block: how it completes for statement s run for model m
\* ("none": falls through to the fetch)
ExecuteQueryTry(s, m) ==
    CASE s.kind = "ProgrammingError" -> Returns(PyStr(s.message))
      [] s.kind = "Exception" -> Raises("Exception", m)
      [] s.kind = "BaseException" -> Raises("BaseException", "")
      [] OTHER -> Running

ExecuteQueryLog(s) ==
    CASE s.kind = "ProgrammingError" ->
            {LogRecord("debug", "SQL: %s", "sql"),
             LogRecord("exception", "programming error: %s", "sql")}
      [] s.kind = "Exception" ->
            {LogRecord("debug", "SQL: %s", "sql"),
             LogRecord("exception", "encountered exception while running: %s", "sql")}
      [] s.kind = "BaseException" -> {LogRecord("debug", "SQL: %s", "sql")}
      [] OTHER ->
            {LogRecord("debug", "SQL: %s", "sql"),
             LogRecord("debug", "SQL status: %s in %d seconds", "sql")}

eq_execute ==
    /\ pc = "eq_execute"
    /\ executed' = executed + 1
    /\ logged' = logged \cup ExecuteQueryLog(sql)
    /\ pending' = ExecuteQueryTry(sql, model)
    /\ pc' = IF pending'.kind = "none" THEN "eq_fetch" ELSE "eq_exit_cursor"
    /\ UNCHANGED <<test_started_at, top, caller, handles, cursors, ret>>
    /\ UNCHANGED <<arg_vars, db_vars, call_vars, ri_vars>>

\* cursor.fetchone(): the next row of the result set, None when there is none
fetchone(rows) == IF rows = <<>> THEN <<"None">> ELSE <<"row", rows[1]>>

\* result = cursor.fetchone(); the len(result) test and what follows
ExecuteQueryResult(rows) ==
    LET result == fetchone(rows)
    IN  IF result[1] = "None" THEN Raises("TypeError", "")
        ELSE IF Len(result[2]) # 1 THEN Raises("RuntimeError", "")
        ELSE Returns(PyInt(result[2][1]))

eq_fetch ==
    /\ pc = "eq_fetch"
    /\ pending' = ExecuteQueryResult(sql.rows)
    /\ logged' = IF pending'.exc = "RuntimeError"
                 THEN logged \cup {LogRecord("error", "SQL: %s", "sql"),
                                   LogRecord("error", "RESULT: %s", "sql")}
                 ELSE logged
    /\ pc' = "eq_exit_cursor"
    /\ UNCHANGED <<test_started_at, top, caller, handles, cursors, executed, ret>>
    /\ UNCHANGED <<arg_vars, db_vars, call_vars, ri_vars>>

\* variant: the cursor is closed by hand after the fetch, so an exception
\* leaves it open
eq_exit_cursor_unscoped ==
    /\ pc = "eq_exit_cursor"
    /\ cursors' = IF pending.kind = "raise" THEN cursors ELSE cursors - 1
    /\ pc' = "eq_exit_handle"
    /\ UNCHANGED <<test_started_at, top, caller, handles, executed, pending, ret, logged>>
    /\ UNCHANGED <<arg_vars, db_vars, call_vars, ri_vars>>

\* leaving "with handle.cursor() as cursor"
eq_exit_cursor ==
    /\ pc = "eq_exit_cursor"
    /\ cursors' = cursors - 1
    /\ pc' = "eq_exit_handle"
    /\ UNCHANGED <<test_started_at, top, caller, handles, executed, pending, ret, logged>>
    /\ UNCHANGED <<arg_vars, db_vars, call_vars, ri_vars>>

\* leaving "with target.get_handle() as handle": the call ends
eq_exit_handle ==
    /\ pc = "eq_exit_handle"
    /\ handles' = HandleExit(handles)
    /\ ret' = pending
    /\ pc' = "done"
    /\ UNCHANGED <<test_started_at, top, caller, cursors, executed, pending, logged>>
    /\ UNCHANGED <<arg_vars, db_vars, call_vars, ri_vars>>

\* ---- validate_schema ----
\* names bound inside validate_schema, and at module level
ValidateSchemaLocals == {"self", "schema_test", "sql", "num_rows"}
ModuleGlobals ==
    {"os", "dbt", "psycopg2", "logging", "time", "datetime",
     "QUERY_VALIDATE_NOT_NULL", "QUERY_VALIDATE_UNIQUE",
     "QUERY_VALIDATE_ACCEPTED_VALUES", "QUERY_VALIDATE_REFERENTIAL_INTEGRITY",
     "DDL_TEST_RESULT_CREATE", "INSERT_TEST_RESULT_TEMPLATE", "SchemaTester"}

\* the orchestrator asks the generator for the outcome of schema_test
validate_schema ==
    /\ \E s \in Statements : sql' = s
    /\ Enter("validate_schema", "vs_call")
    /\ UNCHANGED <<model, run>>
    /\ caller' = "orchestrator"

\* sql = schema_test.render(); num_rows = self.execute_query(model, sql):
\* the argument "model" names nothing, so evaluating it raises NameError
\* before execute_query is entered
vs_call ==
    /\ pc = "vs_call"
    /\ "model" \notin ValidateSchemaLocals \cup ModuleGlobals
    /\ ret' = Raises("NameError", "")
    /\ pc' = "done"
    /\ UNCHANGED <<test_started_at, top, caller, handles, cursors, executed, pending, logged>>
    /\ UNCHANGED <<arg_vars, db_vars, call_vars, ri_vars>>

\* ---- create_test_results_table_if_not_exist ----
create_test_results_table_if_not_exist ==
    /\ Enter("create_test_results_table_if_not_exist", "ct_get_handle")
    /\ UNCHANGED arg_vars
    /\ caller' = "orchestrator"

\* with target.get_handle() as handle
ct_get_handle ==
    /\ pc = "ct_get_handle"
    /\ handles' = HandleEnter(handles)
    /\ executed' = 0
    /\ pc' = "ct_cursor"
    /\ UNCHANGED <<test_started_at, top, caller, cursors, pending, ret, logged>>
    /\ UNCHANGED <<arg_vars, db_vars, call_vars, ri_vars>>

\* with handle.cursor() as cursor
ct_cursor ==
    /\ pc = "ct_cursor"
    /\ cursors' = cursors + 1
    /\ pc' = "ct_execute"
    /\ UNCHANGED <<test_started_at, top, caller, handles, executed, pending, ret, logged>>
    /\ UNCHANGED <<arg_vars, db_vars, call_vars, ri_vars>>

\* variant: no except clause, a programming error travels on like any other
CommandTryUncaught(r) ==
    IF r \in {"Exception", "ProgrammingError"} THEN Raises(r, "") ELSE Running

\* try: cursor.execute(stmt) except psycopg2.ProgrammingError: log.
\* How the try block completes for the engine's reply r ("none": falls
\* off the end of the method)
CommandTry(r) ==
    IF r = "Exception" THEN Raises("Exception", "") ELSE Running

CommandLog(r, stmt) ==
    IF r = "ProgrammingError"
    THEN {LogRecord("exception", "programming error: %s", stmt)}
    ELSE {}

\* DDL_TEST_RESULT_CREATE: "create table if not exists" leaves an existing
\* table as it is
CreateTable(r, exists) == exists \/ r = "ok"

ct_execute ==
    /\ pc = "ct_execute"
    /\ \E r \in CommandReplies :
          /\ created' = r
          /\ table_exists' = CreateTable(r, table_exists)
          /\ pending' = CommandTry(r)
          /\ logged' = logged \cup CommandLog(r, "DDL_TEST_RESULT_CREATE")
    /\ executed' = executed + 1
    /\ pc' = "ct_exit_cursor"
    /\ UNCHANGED <<test_started_at, top, caller, handles, cursors, ret>>
    /\ UNCHANGED <<arg_vars, table, before, values, inserts, inserted, ri_vars>>

ct_exit_cursor ==
    /\ pc = "ct_exit_cursor"
    /\ cursors' = cursors - 1
    /\ pc' = "ct_exit_handle"
    /\ UNCHANGED <<test_started_at, top, caller, handles, executed, pending, ret, logged>>
    /\ UNCHANGED <<arg_vars, db_vars, call_vars, ri_vars>>

\* leaving the outer with block: the method returns None or the exception
\* travels on; inside insert_test_results a return continues with the
\* rendering of the values and an exception ends insert_test_results too
ct_exit_handle ==
    /\ pc = "ct_exit_handle"
    /\ handles' = HandleExit(handles)
    /\ IF pending.kind = "raise"
       THEN /\ ret' = pending
            /\ pc' = "done"
       ELSE IF caller = "insert_test_results"
       THEN /\ ret' = ret
            /\ pc' = "it_values"
       ELSE /\ ret' = Returns(PyNone)
            /\ pc' = "done"
    /\ UNCHANGED <<test_started_at, top, caller, cursors, executed, pending, logged>>
    /\ UNCHANGED <<arg_vars, db_vars, call_vars, ri_vars>>

\* ---- insert_test_results ----
\* target = self.get_target(); self.create_test_results_table_if_not_exist()
insert_test_results ==
    /\ Enter("insert_test_results", "ct_get_handle")
    /\ caller' = "insert_test_results"
    /\ \E r \in Runs : run' = r
    /\ UNCHANGED <<model, sql>>

\* failed_rows = 0 if res.status == "ERROR" else res.status
failed_rows(res) == IF res.status = PyStr("ERROR") THEN 0 ELSE res.status.int

\* variant: "true" if failed_rows >= 0
failed_or_zero(res) == failed_rows(res) >= 0

\* "true" if failed_rows > 0 else "false"
failed(res) == failed_rows(res) > 0

\* value_template.format(...): one rendered row (execution_time is copied
\* from res unchanged and is left out)
value(res, tested_at) ==
    ResultRow(tested_at, res.model, res.errored, res.skipped,
              failed(res), failed_rows(res))

\* variant: the loop passes over skipped results
RenderValuesUnskipped(results, tested_at) ==
    LET kept == SelectSeq(results, LAMBDA res : ~res.skipped)
    IN  [i \in 1..Len(kept) |-> value(kept[i], tested_at)]

\* the loop over run_model_results
RenderValues(results, tested_at) ==
    [i \in 1..Len(results) |-> value(results[i], tested_at)]

it_values ==
    /\ pc = "it_values"
    /\ values' = RenderValues(run, test_started_at)
    /\ pc' = "it_get_handle"
    /\ UNCHANGED <<test_started_at, top, caller, handles, cursors, executed, pending, ret, logged>>
    /\ UNCHANGED <<arg_vars, db_vars, before, inserts, created, inserted, ri_vars>>

it_get_handle ==
    /\ pc = "it_get_handle"
    /\ handles' = HandleEnter(handles)
    /\ executed' = 0
    /\ pc' = "it_cursor"
    /\ UNCHANGED <<test_started_at, top, caller, cursors, pending, ret, logged>>
    /\ UNCHANGED <<arg_vars, db_vars, call_vars, ri_vars>>

it_cursor ==
    /\ pc = "it_cursor"
    /\ cursors' = cursors + 1
    /\ pc' = "it_execute"
    /\ UNCHANGED <<test_started_at, top, caller, handles, executed, pending, ret, logged>>
    /\ UNCHANGED <<arg_vars, db_vars, call_vars, ri_vars>>

\* INSERT_TEST_RESULT_TEMPLATE: what the engine can answer to the statement.
\* "insert ... values" with no row is a syntax error and an insert into a
\* missing table fails: both are programming errors
InsertReplies(vals, exists) ==
    IF vals = <<>> \/ ~exists
    THEN CommandReplies \ {"ok"}
    ELSE CommandReplies

\* the engine runs one insert statement: all of its rows or none
RunInsert(rows, stmt, r) == IF r = "ok" THEN rows \o stmt ELSE rows

it_execute ==
    /\ pc = "it_execute"
    /\ \E r \in InsertReplies(values, table_exists) :
          /\ inserted' = r
          /\ table' = RunInsert(table, values, r)
          /\ pending' = CommandTry(r)
          /\ logged' = logged \cup CommandLog(r, "INSERT_TEST_RESULT_TEMPLATE")
    /\ inserts' = inserts + 1
    /\ executed' = executed + 1
    /\ pc' = "it_exit_cursor"
    /\ UNCHANGED <<test_started_at, top, caller, handles, cursors, ret>>
    /\ UNCHANGED <<arg_vars, table_exists, before, values, created, ri_vars>>

it_exit_cursor ==
    /\ pc = "it_exit_cursor"
    /\ cursors' = cursors - 1
    /\ pc' = "it_exit_handle"
    /\ UNCHANGED <<test_started_at, top, caller, handles, executed, pending, ret, logged>>
    /\ UNCHANGED <<arg_vars, db_vars, call_vars, ri_vars>>

it_exit_handle ==
    /\ pc = "it_exit_handle"
    /\ handles' = HandleExit(handles)
    /\ ret' = IF pending.kind = "raise" THEN pending ELSE Returns(PyNone)
    /\ pc' = "done"
    /\ UNCHANGED <<test_started_at, top, caller, cursors, executed, pending, logged>>
    /\ UNCHANGED <<arg_vars, db_vars, call_vars, ri_vars>>

Next ==
    \/ collect
    \/ execute_query
    \/ eq_get_handle
    \/ eq_cursor
    \/ eq_execute
    \/ eq_fetch
    \/ eq_exit_cursor
    \/ eq_exit_handle
    \/ validate_schema
    \/ vs_call
    \/ create_test_results_table_if_not_exist
    \/ ct_get_handle
    \/ ct_cursor
    \/ ct_execute
    \/ ct_exit_cursor
    \/ ct_exit_handle
    \/ insert_test_results
    \/ it_values
    \/ it_get_handle
    \/ it_cursor
    \/ it_execute
    \/ it_exit_cursor
    \/ it_exit_handle

Spec == Init /\ [][Next]_vars

\* ---- the referential-integrity query ----
\* SQL values and three-valued logic
NULL == "NULL"
Keys == {"k1", "k2"}
Columns == SeqUpTo(Keys \cup {NULL}, MaxTable)

SqlEq(a, b) ==
    IF a = NULL \/ b = NULL THEN "unknown"
    ELSE IF a = b THEN "true" ELSE "false"

SqlNot(p) ==
    CASE p = "true" -> "false"
      [] p = "false" -> "true"
      [] OTHER -> "unknown"

SqlAnd(p, q) ==
    IF p = "false" \/ q = "false" THEN "false"
    ELSE IF p = "true" /\ q = "true" THEN "true"
    ELSE "unknown"

\* x in (select id from col)
SqlIn(x, col) ==
    IF \E i \in DOMAIN col : SqlEq(x, col[i]) = "true" THEN "true"
    ELSE IF \E i \in DOMAIN col : SqlEq(x, col[i]) = "unknown" THEN "unknown"
    ELSE "false"

SqlIsNotNull(x) == IF x = NULL THEN "false" ELSE "true"

\* select count(*) from child
\* where id not in (select id from parent) and id is not null
QUERY_VALIDATE_REFERENTIAL_INTEGRITY(parent_ids, child_ids) ==
    Cardinality({i \in DOMAIN child_ids :
        SqlAnd(SqlNot(SqlIn(child_ids[i], parent_ids)),
               SqlIsNotNull(child_ids[i])) = "true"})

InitRI ==
    /\ InitTester
    /\ parent \in Columns
    /\ child \in Columns
    /\ ri = [done |-> FALSE, count |-> 0]

\* the engine evaluates the query over the two tables
validate_referential_integrity ==
    /\ ~ri.done
    /\ ri' = [done |-> TRUE,
              count |-> QUERY_VALIDATE_REFERENTIAL_INTEGRITY(parent, child)]
    /\ UNCHANGED <<test_started_at, top, caller, pc, handles, cursors,
                   executed, pending, ret, logged, parent, child>>
    /\ UNCHANGED <<arg_vars, db_vars, call_vars>>

NextRI == validate_referential_integrity

SpecRI == InitRI /\ [][NextRI]_vars

\* ---- properties ----
\* the statement returns exactly one row with exactly one column
OneByOne(s) == s.kind = "rows" /\ Len(s.rows) = 1 /\ Len(s.rows[1]) = 1

ExecuteQueryDone == pc = "done" /\ top = "execute_query"
ValidateSchemaDone == pc = "done" /\ top = "validate_schema"
InsertDone == pc = "done" /\ top = "insert_test_results"

\* C1: an assertion whose statement returns one row with one column of
\* value v gets exactly one outcome from validate_schema: passed (True is
\* yielded) when v = 0, failed (False is yielded) when v > 0.
C1_OneRowClassified ==
    (ValidateSchemaDone /\ OneByOne(sql)) => ret = Yields(sql.rows[1][1] = 0)

\* C2: a programming error of the engine on an assertion's statement gives
\* an outcome that carries the engine's primary diagnostic message and no
\* exception leaves the executor, through execute_query and through
\* validate_schema alike.
C2_ProgrammingErrorIsOutcome ==
    (pc = "done" /\ top \in {"execute_query", "validate_schema"}
        /\ sql.kind = "ProgrammingError")
    => (ret.kind \in {"return", "yield"} /\ ret.value = PyStr(sql.message))

\* C3 as stated: any exception of the statement other than a programming
\* error leaves execute_query tagged with the model it was called with.
C3_AnyExceptionTagged ==
    (ExecuteQueryDone /\ sql.kind \in {"Exception", "BaseException"})
    => (ret.kind = "raise" /\ ret.tag = model)

\* C3 amended: an exception deriving from Exception other than a
\* programming error leaves execute_query tagged with the model; one that
\* derives from BaseException only leaves it untagged; in both cases
\* execute_query raises and returns no value.
C3_ExceptionTagged ==
    ExecuteQueryDone =>
        /\ sql.kind = "Exception" => ret = Raises("Exception", model)
        /\ sql.kind = "BaseException" => ret = Raises("BaseException", "")

C3_Witness ==
    /\ ExecuteQueryDone
    /\ sql.kind = "Exception"
    /\ model = "model_b"
    /\ ret.kind = "raise"
    /\ ret.tag = "model_b"

\* C4: a result of any shape other than one row with one column makes
\* execute_query fail: it raises and returns no value of that result.
C4_OtherShapesFatal ==
    (ExecuteQueryDone /\ sql.kind = "rows" /\ ~OneByOne(sql)) => ret.kind = "raise"

\* C5: at most one handle and one cursor are open at any time, a session
\* runs exactly one statement before it is left, and no session is open
\* when no call is in progress, whichever way the call ended.
C5_SessionsScoped ==
    /\ handles \in {0, 1}
    /\ cursors \in {0, 1}
    /\ cursors <= handles
    /\ executed \in {0, 1}
    /\ pc \in {"idle", "done"} => (handles = 0 /\ cursors = 0)
    /\ pc \in {"eq_exit_cursor", "eq_exit_handle", "ct_exit_cursor",
               "ct_exit_handle", "it_exit_cursor", "it_exit_handle"}
          => executed = 1
    /\ (pc = "done" /\ top # "validate_schema") => executed = 1

C5_Witness ==
    /\ ExecuteQueryDone
    /\ ret.exc = "RuntimeError"
    /\ executed = 1
    /\ handles = 0
    /\ cursors = 0

C7_ProgrammingErrorsRecovered ==
    /\ InsertDone =>
          /\ created = "ProgrammingError" =>
                /\ inserts = 1
                /\ LogRecord("exception", "programming error: %s",
                             "DDL_TEST_RESULT_CREATE") \in logged
          /\ inserted = "ProgrammingError" =>
                LogRecord("exception", "programming error: %s",
                          "INSERT_TEST_RESULT_TEMPLATE") \in logged
          /\ (created # "Exception" /\ inserted # "Exception") => ret = Returns(PyNone)
    /\ (pc = "done" /\ top = "create_test_results_table_if_not_exist"
           /\ created = "ProgrammingError") => ret = Returns(PyNone)

C7_Witness ==
    /\ InsertDone
    /\ created = "ProgrammingError"
    /\ inserted = "ProgrammingError"
    /\ inserts = 1
    /\ ret = Returns(PyNone)

\* C8: every row of the results table has failed = (count_failures > 0)
\* and count_failures >= 0.
C8_FailedIffCount ==
    \A i \in DOMAIN table :
        /\ table[i].failed = (table[i].count_failures > 0)
        /\ table[i].count_failures >= 0

C8_Witness ==
    /\ InsertDone
    /\ \E i \in (before + 1)..Len(table) : table[i].failed /\ table[i].count_failures > 0
    /\ \E i \in (before + 1)..Len(table) : ~table[i].failed /\ table[i].count_failures = 0

\* C9: every row written for a skipped or errored outcome has
\* count_failures = 0 and failed = false.
C9_SkippedOrErroredZero ==
    \A i \in DOMAIN table :
        (table[i].skipped \/ table[i].errored)
        => (table[i].count_failures = 0 /\ ~table[i].failed)

\* C10: the referential-integrity query returns the number of child rows
\* whose field is not null and not among the parent's ids.
C10_CountsOrphans ==
    ri.done =>
        ri.count = Cardinality({i \in DOMAIN child :
                        /\ child[i] # NULL
                        /\ \A j \in DOMAIN parent : parent[j] # child[i]})

====
